---------------------------- MODULE Spec2Model ----------------------------
(***************************************************************************)
(* Model of app.py: a Streamlit script (re-executed top to bottom on every *)
(* user interaction) that fits a linear revenue model and offers a         *)
(* forecast tab, a scenario tab and a keyword-driven "agent chat".         *)
(*                                                                         *)
(* Strings are sequences of one-character strings.  The rupee sign is the  *)
(* character "RUPEE", the superscript two (a character str.isdigit accepts *)
(* and int rejects) is "SUP2", the Arabic-Indic digit three (accepted by   *)
(* both) is "AR3".                                                         *)
(*                                                                         *)
(* Numbers are records [k, num, den]: k is the Python type ("int", the     *)
(* built-in "float", or numpy's "f64"), or "inf" / "nan" for the IEEE      *)
(* specials (num carries the sign of an infinity), or "raise" for an       *)
(* exception leaving the expression.  A finite float is the rational       *)
(* num/den in lowest terms: rounding error of binary floating point is not *)
(* modelled.                                                               *)
(***************************************************************************)
EXTENDS Integers, Sequences, FiniteSets, TLC

VARIABLES
    coef,       \* the fitted LinearRegression (line 41), immutable afterwards
    marketing,  \* tab1 slider values kept by the session
    store,
    online,
    deltaW,     \* tab2 slider value
    query,      \* tab4 text input
    clicked,    \* the widget whose interaction caused the last rerun
    ns,         \* the script's namespace at the end of the last rerun
    exc,        \* exception that ended the last rerun, or "none"
    out,        \* what the last rerun rendered
    roiCalls,   \* marketing arguments roi_tool received in the last rerun
    branch,     \* arm of the tab4 if/elif chain the last rerun executed
    lastRun,    \* history: inputs and results of the latest Run Forecast
    call,       \* harness: the last direct call of a tool function
    fmtIn,      \* harness: argument of format_currency
    fmtOut      \* harness: its result

vars == <<coef, marketing, store, online, deltaW, query, clicked, ns, exc,
          out, roiCalls, branch, lastRun, call, fmtIn, fmtOut>>

appVars == <<coef, marketing, store, online, deltaW, query, clicked, ns, exc,
             out, roiCalls, branch, lastRun>>

None == [k |-> "none", num |-> 0, den |-> 0]

-----------------------------------------------------------------------------
(* Numbers *)

Abs(n) == IF n < 0 THEN -n ELSE n

Sign(n) == IF n < 0 THEN -1 ELSE IF n = 0 THEN 0 ELSE 1

RECURSIVE GCD(_, _)
GCD(a, b) == IF b = 0 THEN a ELSE GCD(b, a % b)

PyInt(n) == [k |-> "int", num |-> n, den |-> 1]

Inf(sign) == [k |-> "inf", num |-> sign, den |-> 0]

NaN == [k |-> "nan", num |-> 0, den |-> 0]

Raise(e) == [k |-> "raise", num |-> 0, den |-> 0, exc |-> e]

\* the rational n/d (d # 0) in lowest terms, as a float of type k
Ratio(k, n, d) ==
    LET g == GCD(Abs(n), Abs(d))
        s == IF d < 0 THEN -1 ELSE 1
    IN [k |-> k, num |-> s * (n \div g), den |-> s * (d \div g)]

IsFinite(x) == x.k \in {"int", "float", "f64"}

IsRaise(x) == x.k = "raise"

\* type of the result of a binary operation on finite operands
Promote(a, b) ==
    IF a.k = "f64" \/ b.k = "f64" THEN "f64"
    ELSE IF a.k = "float" \/ b.k = "float" THEN "float"
    ELSE "int"

\* a - b
Sub(a, b) ==
    IF IsRaise(a) THEN a
    ELSE IF IsRaise(b) THEN b
    ELSE IF a.k = "nan" \/ b.k = "nan" THEN NaN
    ELSE IF a.k = "inf" /\ b.k = "inf"
         THEN IF a.num = b.num THEN NaN ELSE a
    ELSE IF a.k = "inf" THEN a
    ELSE IF b.k = "inf" THEN Inf(-b.num)
    ELSE Ratio(Promote(a, b), a.num * b.den - b.num * a.den, a.den * b.den)

\* a * b
Mul(a, b) ==
    IF IsRaise(a) THEN a
    ELSE IF IsRaise(b) THEN b
    ELSE IF a.k = "nan" \/ b.k = "nan" THEN NaN
    ELSE IF a.k = "inf" \/ b.k = "inf"
         THEN IF Sign(a.num) * Sign(b.num) = 0 THEN NaN
              ELSE Inf(Sign(a.num) * Sign(b.num))
    ELSE Ratio(Promote(a, b), a.num * b.num, a.den * b.den)

\* a / b (true division): Python raises ZeroDivisionError on a zero divisor,
\* numpy's float64 returns an infinity or NaN (with a RuntimeWarning)
Div(a, b) ==
    IF IsRaise(a) THEN a
    ELSE IF IsRaise(b) THEN b
    ELSE IF a.k = "nan" \/ b.k = "nan" THEN NaN
    ELSE IF a.k = "inf" /\ b.k = "inf" THEN NaN
    ELSE IF a.k = "inf"
         THEN Inf(a.num * (IF b.num < 0 THEN -1 ELSE 1))
    ELSE IF b.k = "inf" THEN Ratio("f64", 0, 1)
    ELSE IF b.num = 0
         THEN IF Promote(a, b) = "f64"
              THEN IF a.num = 0 THEN NaN ELSE Inf(Sign(a.num))
              ELSE Raise("ZeroDivisionError")
    ELSE Ratio(IF Promote(a, b) = "int" THEN "float" ELSE Promote(a, b),
               a.num * b.den, a.den * b.num)

\* int(x): truncation toward zero; int of an infinity or NaN raises
IntOf(x) ==
    IF IsFinite(x) THEN PyInt(Sign(x.num) * (Abs(x.num) \div x.den))
    ELSE IF x.k = "inf" THEN Raise("OverflowError")
    ELSE IF x.k = "nan" THEN Raise("ValueError")
    ELSE Raise("TypeError")

\* round(x, 2), ties to even
Round2(x) ==
    IF ~IsFinite(x) THEN x
    ELSE LET whole == Abs(x.num) \div x.den
             rem == (Abs(x.num) % x.den) * 100
             q == whole * 100 + rem \div x.den
             r == rem % x.den
             up == 2 * r > x.den \/ (2 * r = x.den /\ q % 2 = 1)
         IN Ratio(x.k, Sign(x.num) * (IF up THEN q + 1 ELSE q), 100)

-----------------------------------------------------------------------------
(* Strings *)

DigitChar == <<"0", "1", "2", "3", "4", "5", "6", "7", "8", "9">>

RECURSIVE NatStr(_)
NatStr(n) ==
    IF n < 10 THEN <<DigitChar[n + 1]>>
    ELSE Append(NatStr(n \div 10), DigitChar[(n % 10) + 1])

\* str(n) of a Python int
Str(n) == IF n < 0 THEN <<"-">> \o NatStr(-n) ELSE NatStr(n)

\* s[-n:]
Tail_(s, n) == IF Len(s) <= n THEN s ELSE SubSeq(s, Len(s) - n + 1, Len(s))

\* s[:-n]
DropTail(s, n) == IF Len(s) <= n THEN <<>> ELSE SubSeq(s, 1, Len(s) - n)

\* sep.join(parts)
RECURSIVE Join(_, _)
Join(sep, parts) ==
    IF parts = <<>> THEN <<>>
    ELSE IF Len(parts) = 1 THEN parts[1]
    ELSE parts[1] \o sep \o Join(sep, Tail(parts))


\* str.lower(), for the characters the model draws queries from
LowerChar(c) ==
    CASE c = "F" -> "f"
      [] c = "R" -> "r"
      [] c = "O" -> "o"
      [] c = "I" -> "i"
      [] c = "W" -> "w"
      [] OTHER -> c

Lower(s) == [i \in 1..Len(s) |-> LowerChar(s[i])]

\* characters str.split() treats as separators
IsSpace(c) == c \in {" ", "TAB"}

\* str.split(): the maximal runs of non-whitespace characters, left to right
RECURSIVE SplitFrom(_, _, _)
SplitFrom(s, i, cur) ==
    IF i > Len(s) THEN (IF cur = <<>> THEN <<>> ELSE <<cur>>)
    ELSE IF IsSpace(s[i])
         THEN (IF cur = <<>> THEN <<>> ELSE <<cur>>) \o SplitFrom(s, i + 1, <<>>)
    ELSE SplitFrom(s, i + 1, Append(cur, s[i]))

Split(s) == SplitFrom(s, 1, <<>>)

\* characters with the Unicode digit property: the ASCII digits, the decimal
\* digits of other scripts (AR3) and the superscript digits (SUP2)
IsDigitChar(c) == c \in {"0", "1", "2", "3", "4", "5", "6", "7", "8", "9", "AR3", "SUP2"}

\* str.isdigit(): non-empty and every character is a digit
IsDigit(tok) == tok # <<>> /\ \A i \in 1..Len(tok) : IsDigitChar(tok[i])

\* value of a decimal digit character; -1 for a character int() rejects
DigitVal(c) ==
    CASE c = "0" -> 0 [] c = "1" -> 1 [] c = "2" -> 2 [] c = "3" -> 3
      [] c = "4" -> 4 [] c = "5" -> 5 [] c = "6" -> 6 [] c = "7" -> 7
      [] c = "8" -> 8 [] c = "9" -> 9 [] c = "AR3" -> 3
      [] OTHER -> -1

RECURSIVE DecVal(_)
DecVal(tok) ==
    IF tok = <<>> THEN 0
    ELSE 10 * DecVal(SubSeq(tok, 1, Len(tok) - 1)) + DigitVal(tok[Len(tok)])

\* int(tok) of a string: ValueError unless every character is a decimal digit
IntParse(tok) ==
    IF tok = <<>> \/ \E i \in 1..Len(tok) : DigitVal(tok[i]) < 0
    THEN Raise("ValueError")
    ELSE PyInt(DecVal(tok))

\* kw in s
Contains(s, kw) ==
    \E i \in 1..(Len(s) - Len(kw) + 1) : SubSeq(s, i, i + Len(kw) - 1) = kw

-----------------------------------------------------------------------------
(* format_currency, lines 11-30 *)

Prefix == <<"RUPEE", " ">>

\* mutant: the final group cut one character short
last3_short(s) == Tail_(s, 2)

last3(s) == Tail_(s, 3)

rest0(s) == DropTail(s, 3)

\* mutant: groups of three peeled off instead of two
RECURSIVE PeelLoop_threes(_, _)
PeelLoop_threes(rest, parts) ==
    IF Len(rest) > 3
    THEN PeelLoop_threes(DropTail(rest, 3), <<Tail_(rest, 3)>> \o parts)
    ELSE IF rest # <<>> THEN <<rest>> \o parts ELSE parts

\* the while loop of lines 24-26 followed by the if of lines 27-28
RECURSIVE PeelLoop(_, _)
PeelLoop(rest, parts) ==
    IF Len(rest) > 2
    THEN PeelLoop(DropTail(rest, 2), <<Tail_(rest, 2)>> \o parts)
    ELSE IF rest # <<>> THEN <<rest>> \o parts ELSE parts

format_currency(val) ==
    LET i == IntOf(val)
    IN IF IsRaise(i) THEN Prefix \o <<"0">>
       ELSE LET s == Str(i.num)
            IN IF Len(s) <= 3 THEN Prefix \o s
               ELSE Prefix \o Join(<<",">>, PeelLoop(rest0(s), <<>>))
                           \o <<",">> \o last3(s)

-----------------------------------------------------------------------------
(* Tool functions, lines 46-65 *)

DefaultMarketing == 200000
DefaultDelta == 50000
FixedStore == 200000
FixedOnline == 100000
ScenarioBase == 200000
SliderMarketing == 200000
SliderStore == 200000
SliderOnline == 100000
SliderDelta == 50000

\* a + b, on finite operands
Add(a, b) == Ratio(Promote(a, b), a.num * b.den + b.num * a.den, a.den * b.den)

\* model.predict([[marketing, store, online]])[0]: the fitted linear form
\* (coef.c0 + coef.c1*marketing + coef.c2*store + coef.c3*online) / coef.d,
\* a numpy float64
forecast_tool(m, s, o) ==
    Ratio("f64",
          coef.c0 * m.den * s.den * o.den + coef.c1 * m.num * s.den * o.den
              + coef.c2 * s.num * m.den * o.den + coef.c3 * o.num * m.den * s.den,
          coef.d * m.den * s.den * o.den)

roi_tool(revenue, m) == Div(Sub(revenue, m), m)

profit_tool(revenue, s, o) == Sub(Sub(revenue, s), o)

margin_tool(profit, revenue) == Mul(Div(profit, revenue), PyInt(100))

\* mutant: the perturbed evaluation forgets the base spend
scenario_tool_nobase(base_marketing, delta) ==
    [base |-> forecast_tool(base_marketing, PyInt(FixedStore), PyInt(FixedOnline)),
     new |-> forecast_tool(delta, PyInt(FixedStore), PyInt(FixedOnline))]

scenario_tool(base_marketing, delta) ==
    [base |-> forecast_tool(base_marketing, PyInt(FixedStore), PyInt(FixedOnline)),
     new |-> forecast_tool(Add(base_marketing, delta),
                           PyInt(FixedStore), PyInt(FixedOnline))]

\* the list comprehension of line 64: int(s) of every token s.isdigit()
\* accepts, in order
Nums(text) ==
    LET toks == Split(text)
        digs == SelectSeq(toks, IsDigit)
    IN [i \in 1..Len(digs) |-> IntParse(digs[i])]

extract_number(text) ==
    LET nums == Nums(text)
    IN IF \E i \in 1..Len(nums) : IsRaise(nums[i])
       THEN Raise("ValueError")
       ELSE IF nums # <<>> THEN nums[1] ELSE None

-----------------------------------------------------------------------------
(* The script, lines 70-242.  A frame is what a stretch of the script      *)
(* leaves behind: ns the names it assigned (a function from names to       *)
(* values), exc the exception that stopped it, out what it rendered, roi   *)
(* the marketing arguments roi_tool received, branch the arm of the tab4   *)
(* if/elif chain it entered.                                               *)

Frame0 ==
    [ns |-> <<>>, exc |-> "none", out |-> <<>>, roi |-> <<>>, branch |-> "none"]

\* f followed by g: g's assignments rebind f's names; nothing follows an
\* exception
Then(f, g) ==
    IF f.exc # "none" THEN f
    ELSE [ns |-> g.ns @@ f.ns, exc |-> g.exc, out |-> g.out @@ f.out,
          roi |-> f.roi \o g.roi,
          branch |-> IF g.branch # "none" THEN g.branch ELSE f.branch]

\* truth value of `num` in `num if num else default`
Truthy(x) == x.k # "none" /\ x.num # 0

\* mutant: the default only when no number was extracted
val_or_default_isnone(num, default) ==
    IF num.k # "none" THEN num ELSE PyInt(default)

val_or_default(num, default) == IF Truthy(num) THEN num ELSE PyInt(default)

\* lines 139-148
RunForecast(m, s, o) ==
    LET revenue == forecast_tool(m, s, o)
        profit == profit_tool(revenue, s, o)
        margin == margin_tool(profit, revenue)
        roi == roi_tool(revenue, m)
    IN [Frame0 EXCEPT
          !.ns = [revenue |-> revenue, profit |-> profit,
                  margin |-> margin, roi |-> roi],
          !.roi = <<m>>,
          !.out = [forecast |-> [revenue |-> format_currency(revenue),
                                 profit |-> format_currency(profit),
                                 margin |-> Round2(margin),
                                 roi |-> Round2(roi)]]]

\* lines 150-163: the DataFrame literal reads revenue, profit, margin and roi
\* from the names assigned so far in this execution (names); one that is
\* missing is a NameError
ExportResults(names, m, s, o) ==
    IF \E n \in {"revenue", "profit", "margin", "roi"} : n \notin DOMAIN names
    THEN [Frame0 EXCEPT !.exc = "NameError"]
    ELSE LET row == [marketing |-> m, store |-> s, online |-> o,
                     revenue |-> names["revenue"], profit |-> names["profit"],
                     margin |-> names["margin"], roi |-> names["roi"]]
         IN [Frame0 EXCEPT !.ns = [result_df |-> row],
                           !.out = [download |-> row]]

\* lines 132-163
Tab1(c, m, s, o) ==
    LET ran == IF c = "run" THEN RunForecast(m, s, o) ELSE Frame0
    IN IF c = "export" THEN Then(ran, ExportResults(ran.ns, m, s, o)) ELSE ran

\* lines 168-177
Tab2(d) ==
    LET r == scenario_tool(PyInt(ScenarioBase), d)
        uplift == Sub(r.new, r.base)
    IN [Frame0 EXCEPT
          !.ns = [delta |-> d, base |-> r.base, new |-> r.new,
                  uplift |-> uplift],
          !.out = [scenario |-> [base |-> format_currency(r.base),
                                 new |-> format_currency(r.new),
                                 uplift |-> format_currency(uplift)]]]

KwForecast == <<"f", "o", "r", "e", "c", "a", "s", "t">>
KwRoi == <<"r", "o", "i">>
KwProfit == <<"p", "r", "o", "f", "i", "t">>
KwIncrease == <<"i", "n", "c", "r", "e", "a", "s", "e">>
KwWhatIf == <<"w", "h", "a", "t", " ", "i", "f">>

HelpText ==
    <<"I can help with:", "- Revenue forecast", "- ROI", "- Profit",
      "- Marketing scenarios", "Try: 'Forecast revenue for 250000 marketing'">>

\* lines 205-208
ForecastBranch(num) ==
    LET val == val_or_default(num, DefaultMarketing)
        revenue == forecast_tool(val, PyInt(200000), PyInt(100000))
    IN [Frame0 EXCEPT
          !.branch = "forecast",
          !.ns = [val |-> val, revenue |-> revenue,
                  response |->
                      [text |-> <<"Projected revenue for ">>
                                \o format_currency(val)
                                \o <<" marketing is ">>
                                \o format_currency(revenue) \o <<".">>,
                       ratio |-> None]]]

\* lines 210-214
RoiBranch(num) ==
    LET val == val_or_default(num, DefaultMarketing)
        revenue == forecast_tool(val, PyInt(200000), PyInt(100000))
        roi == roi_tool(revenue, val)
    IN IF IsRaise(roi)
       THEN [Frame0 EXCEPT !.branch = "roi", !.roi = <<val>>, !.exc = roi.exc,
                           !.ns = [val |-> val, revenue |-> revenue]]
       ELSE [Frame0 EXCEPT
               !.branch = "roi",
               !.roi = <<val>>,
               !.ns = [val |-> val, revenue |-> revenue, roi |-> roi,
                       response |->
                           [text |-> <<"ROI for spend ">>
                                     \o format_currency(val)
                                     \o <<" is ", "{round(roi,2)}", ".">>,
                            ratio |-> Round2(roi)]]]

\* lines 216-218
ProfitBranch ==
    LET revenue == forecast_tool(PyInt(200000), PyInt(200000), PyInt(100000))
        profit == profit_tool(revenue, PyInt(200000), PyInt(100000))
    IN [Frame0 EXCEPT
          !.branch = "profit",
          !.ns = [revenue |-> revenue,
                  response |->
                      [text |-> <<"Estimated profit: ">>
                                \o format_currency(profit) \o <<".">>,
                       ratio |-> None]]]

\* lines 220-223
ScenarioBranch(num) ==
    LET delta == val_or_default(num, DefaultDelta)
        r == scenario_tool(PyInt(200000), delta)
    IN [Frame0 EXCEPT
          !.branch = "scenario",
          !.ns = [delta |-> delta, base |-> r.base, new |-> r.new,
                  response |->
                      [text |-> <<"Uplift for +">> \o format_currency(delta)
                                \o <<" is ">>
                                \o format_currency(Sub(r.new, r.base))
                                \o <<".">>,
                       ratio |-> None]]]

\* lines 225-233
UnknownBranch ==
    [Frame0 EXCEPT !.branch = "unknown",
                   !.ns = [response |-> [text |-> HelpText, ratio |-> None]]]

\* the if/elif chain of lines 205-233
Dispatch(q, num) ==
    IF Contains(q, KwForecast) THEN ForecastBranch(num)
    ELSE IF Contains(q, KwRoi) THEN RoiBranch(num)
    ELSE IF Contains(q, KwProfit) THEN ProfitBranch
    ELSE IF Contains(q, KwIncrease) \/ Contains(q, KwWhatIf)
         THEN ScenarioBranch(num)
    ELSE UnknownBranch

\* line 235
WriteResponse(names) == [Frame0 EXCEPT !.out = [chat |-> names["response"]]]

\* lines 201-235
Submit(qy) ==
    LET q == Lower(qy)
        num == extract_number(q)
    IN IF IsRaise(num)
       THEN [Frame0 EXCEPT !.ns = [q |-> q], !.exc = num.exc]
       ELSE LET head == [Frame0 EXCEPT !.ns = [q |-> q, num |-> num]]
                arm == Dispatch(q, num)
            IN Then(Then(head, arm), WriteResponse(arm.ns))

\* lines 196-235
Tab4(c, qy) == IF c = "submit" THEN Submit(qy) ELSE Frame0

\* one execution of the script, caused by an interaction with widget c, with
\* the widget values m, s, o (tab1 sliders), d (tab2 slider), qy (text input)
Script(c, m, s, o, d, qy) ==
    Then(Then(Tab1(c, PyInt(m), PyInt(s), PyInt(o)), Tab2(PyInt(d))),
         Tab4(c, qy))

-----------------------------------------------------------------------------
(* Bounds and input sets *)

MaxPieces == 3
MaxUnits == 2
MaxLead == 12
MaxExp == 6
MaxLow == 2

\* fitted models: the coefficients depend on RetailChain_Financials.xlsx,
\* which is data; each record is intercept c0 and slopes c1..c3 over d
CoefChoices ==
    {[c0 |-> 100001, c1 |-> 3, c2 |-> 1, c3 |-> 1, d |-> 2],
     [c0 |-> 0, c1 |-> 0, c2 |-> 0, c3 |-> 0, d |-> 1]}

\* slider positions explored: the default and one end of the range
MarketingValues == {50000, 200000}
StoreValues == {200000, 300000}
OnlineValues == {100000, 200000}
DeltaValues == {10000, 50000}

\* fragments a typed query is assembled from
Pieces ==
    {KwForecast, KwRoi, KwProfit, KwIncrease, KwWhatIf, <<"R", "O", "I">>,
     <<" ">>, <<" ", "7">>, <<" ", "0">>, <<"0">>, <<"SUP2">>, <<" ", "AR3">>}

RECURSIVE Flatten(_)
Flatten(ps) == IF ps = <<>> THEN <<>> ELSE ps[1] \o Flatten(Tail(ps))

Queries == {Flatten(ps) : ps \in UNION {[1..n -> Pieces] : n \in 0..MaxPieces}}

\* the queries of the application's own examples, and two more
QuerySamples ==
    {<<>>,
     Flatten(<<KwForecast, <<" ", "7">>>>),
     Flatten(<<KwWhatIf, <<" ">>, KwIncrease>>),
     Flatten(<<<<"R", "O", "I">>, <<" ", "0">>>>),
     Flatten(<<<<"x">>, <<" ">>, <<"SUP2">>>>)}

Amounts == {PyInt(u * 50000) : u \in (0 - MaxUnits)..MaxUnits}

\* revenues handed to the ratio tools: what forecast_tool returns at the
\* slider positions, and the same amounts as Python ints
Revenues ==
    {forecast_tool(PyInt(m), PyInt(FixedStore), PyInt(FixedOnline)) :
        m \in MarketingValues} \cup Amounts

RECURSIVE Pow10(_)
Pow10(n) == IF n = 0 THEN 1 ELSE 10 * Pow10(n - 1)

\* integers formatted: a leading part, zeros and a low part, and the leading
\* digits of 123456789 and of 908070605 (every length from 1 to 9)
Magnitudes ==
    {a * Pow10(e) + b : a \in 0..MaxLead, e \in 0..MaxExp, b \in 0..MaxLow}
        \cup {123456789 \div Pow10(e) : e \in 0..8}
        \cup {908070605 \div Pow10(e) : e \in 0..8}

FormatInputs == {PyInt(sg * v) : sg \in {-1, 1}, v \in Magnitudes}

-----------------------------------------------------------------------------
(* The application: one action per interaction, each a complete rerun *)

NeverRan == [ran |-> FALSE]

Rerun(c, m, s, o, d, qy) ==
    \E fr \in {Script(c, m, s, o, d, qy)} :
       /\ marketing' = m
       /\ store' = s
       /\ online' = o
       /\ deltaW' = d
       /\ query' = qy
       /\ clicked' = c
       /\ ns' = fr.ns
       /\ exc' = fr.exc
       /\ out' = fr.out
       /\ roiCalls' = fr.roi
       /\ branch' = fr.branch
       /\ lastRun' = IF c = "run"
                     THEN [ran |-> TRUE, marketing |-> PyInt(m),
                           store |-> PyInt(s), online |-> PyInt(o),
                           revenue |-> fr.ns["revenue"],
                           profit |-> fr.ns["profit"],
                           margin |-> fr.ns["margin"], roi |-> fr.ns["roi"]]
                     ELSE lastRun
       /\ UNCHANGED <<coef, call, fmtIn, fmtOut>>

\* the first execution of the script in a session, widgets at their defaults
\* (lines 135-137, 171, 199), with the typed text qy
Loaded(c, qy) ==
    /\ coef \in CoefChoices
    /\ \E fr \in {Script(c, SliderMarketing, SliderStore, SliderOnline,
                          SliderDelta, qy)} :
       /\ marketing = SliderMarketing
       /\ store = SliderStore
       /\ online = SliderOnline
       /\ deltaW = SliderDelta
       /\ query = qy
       /\ clicked = c
       /\ ns = fr.ns
       /\ exc = fr.exc
       /\ out = fr.out
       /\ roiCalls = fr.roi
       /\ branch = fr.branch
       /\ lastRun = NeverRan

NoCall == [fn |-> "none"]

Init ==
    /\ Loaded("load", <<>>)
    /\ call = NoCall
    /\ fmtIn = None
    /\ fmtOut = <<>>

MoveMarketing ==
    \E v \in MarketingValues \ {marketing} :
        Rerun("marketing", v, store, online, deltaW, query)

MoveStore ==
    \E v \in StoreValues \ {store} :
        Rerun("store", marketing, v, online, deltaW, query)

MoveOnline ==
    \E v \in OnlineValues \ {online} :
        Rerun("online", marketing, store, v, deltaW, query)

MoveDelta ==
    \E v \in DeltaValues \ {deltaW} :
        Rerun("delta", marketing, store, online, v, query)

EditQuery ==
    \E qy \in QuerySamples \ {query} :
        Rerun("text", marketing, store, online, deltaW, qy)

ClickRun == Rerun("run", marketing, store, online, deltaW, query)

ClickExport == Rerun("export", marketing, store, online, deltaW, query)

ClickSubmit == Rerun("submit", marketing, store, online, deltaW, query)

Next ==
    \/ MoveMarketing
    \/ MoveStore
    \/ MoveOnline
    \/ MoveDelta
    \/ EditQuery
    \/ ClickRun
    \/ ClickExport
    \/ ClickSubmit

Spec == Init /\ [][Next]_vars

-----------------------------------------------------------------------------
(* The chat handler on every bounded query: the text is typed into a       *)
(* freshly loaded session and Submit is pressed.                           *)

InitChat ==
    /\ \E qy \in Queries : Loaded("text", qy)
    /\ call = NoCall
    /\ fmtIn = None
    /\ fmtOut = <<>>

NextChat == ClickSubmit

SpecChat == InitChat /\ [][NextChat]_vars

-----------------------------------------------------------------------------
(* The tool functions called directly on bounded arguments *)

CallRoi ==
    /\ \E revenue \in Revenues, m \in Amounts :
          call' = [fn |-> "roi_tool", a |-> revenue, b |-> m,
                   result |-> roi_tool(revenue, m)]
    /\ UNCHANGED <<appVars, fmtIn, fmtOut>>

CallMargin ==
    /\ \E profit \in Revenues, revenue \in Revenues :
          call' = [fn |-> "margin_tool", a |-> profit, b |-> revenue,
                   result |-> margin_tool(profit, revenue)]
    /\ UNCHANGED <<appVars, fmtIn, fmtOut>>

CallScenario ==
    /\ \E base_marketing \in Amounts, delta \in Amounts :
          call' = [fn |-> "scenario_tool", a |-> base_marketing, b |-> delta,
                   result |-> scenario_tool(base_marketing, delta)]
    /\ UNCHANGED <<appVars, fmtIn, fmtOut>>

NextTools == CallRoi \/ CallMargin \/ CallScenario

SpecTools == Init /\ [][NextTools]_vars

-----------------------------------------------------------------------------
(* format_currency called directly on bounded integers *)

InitFormat ==
    /\ Loaded("load", <<>>)
    /\ call = NoCall
    /\ fmtIn \in FormatInputs
    /\ fmtOut = <<>>

Format ==
    /\ fmtOut = <<>>
    /\ fmtOut' = format_currency(fmtIn)
    /\ UNCHANGED <<appVars, call, fmtIn>>

NextFormat == Format

SpecFormat == InitFormat /\ [][NextFormat]_vars

-----------------------------------------------------------------------------
(* Properties *)

Submitted == clicked = "submit"

Intents == <<"forecast", "roi", "profit", "scenario">>

\* the keyword(s) of the i-th intent occur in q
Occurs(q, i) ==
    CASE i = 1 -> Contains(q, KwForecast)
      [] i = 2 -> Contains(q, KwRoi)
      [] i = 3 -> Contains(q, KwProfit)
      [] i = 4 -> Contains(q, KwIncrease) \/ Contains(q, KwWhatIf)

\* the highest-priority intent whose keyword occurs, "unknown" if none does
Resolved(q) ==
    IF \E i \in 1..4 : Occurs(q, i)
    THEN Intents[CHOOSE i \in 1..4 :
                    Occurs(q, i) /\ \A j \in 1..(i - 1) : ~Occurs(q, j)]
    ELSE "unknown"

HelpReturned == "chat" \in DOMAIN out /\ out["chat"].text = HelpText

\* C1: after Submit, for every query, the arm taken is the one of the
\* highest-priority keyword occurring in the lower-cased query, and the help
\* text is returned exactly when none of the five keywords occurs.
C1_FirstMatchWins ==
    Submitted =>
        /\ branch = Resolved(Lower(query))
        /\ HelpReturned <=> (Resolved(Lower(query)) = "unknown")

\* (auxiliary) the same, for the queries on which extract_number returns
C1_FirstMatchWinsWhenParsed ==
    (Submitted /\ exc = "none") =>
        /\ branch = Resolved(Lower(query))
        /\ HelpReturned <=> (Resolved(Lower(query)) = "unknown")

\* C2: after Submit, for every query, no exception has left the handler and a
\* response has been written.
C2_NeverRaises ==
    Submitted => (exc = "none" /\ "chat" \in DOMAIN out)

\* the tokens of the lower-cased query made only of digits
DigitTokens == SelectSeq(Split(Lower(query)), IsDigit)

\* the value C4 expects: the first digit token's integer, else the default
ExpectedValue(default) ==
    IF DigitTokens # <<>> THEN IntParse(DigitTokens[1]) ELSE PyInt(default)

\* C4: when the Forecast, ROI or Scenario arm ran, the value it used is the
\* integer of the first all-digit token of the query (0 included), and the
\* default only when the query has no such token.
C4_FirstNumberUsed ==
    /\ (Submitted /\ branch \in {"forecast", "roi"})
          => ns["val"] = ExpectedValue(DefaultMarketing)
    /\ (Submitted /\ branch = "scenario")
          => ns["delta"] = ExpectedValue(DefaultDelta)

\* C9: on the chat ROI path roi_tool never receives marketing = 0: what it
\* receives is the non-zero extracted integer or the default 200000, and no
\* ZeroDivisionError leaves the handler.
C9_RoiNeverZero ==
    Submitted =>
        /\ exc # "ZeroDivisionError"
        /\ \A i \in 1..Len(roiCalls) :
              /\ roiCalls[i].num # 0
              /\ \/ roiCalls[i] = PyInt(DefaultMarketing)
                 \/ (ns["num"].k = "int" /\ roiCalls[i] = ns["num"])
        /\ branch = "roi" => (Len(roiCalls) = 1 /\ "roi" \in DOMAIN ns
                                /\ IsFinite(ns["roi"]))

\* the ROI arm ran on a query whose first number is 0
C9_Witness ==
    /\ Submitted
    /\ branch = "roi"
    /\ DigitTokens # <<>>
    /\ IntParse(DigitTokens[1]) = PyInt(0)
    /\ roiCalls = <<PyInt(DefaultMarketing)>>

ZeroDivisor(fn) == call.fn = fn /\ IsFinite(call.b) /\ call.b.num = 0

\* C3: roi_tool with marketing = 0 and margin_tool with revenue = 0 signal an
\* error for every value of the other argument; neither returns an infinity
\* or a NaN.
C3_ZeroDivisorSignalled ==
    (ZeroDivisor("roi_tool") \/ ZeroDivisor("margin_tool"))
        => (IsRaise(call.result) /\ call.result.k \notin {"inf", "nan"})

\* the fitted linear form at marketing spend m with the fixed costs
LinearAt(m) ==
    Ratio("f64", coef.c0 + coef.c1 * m + coef.c2 * 200000 + coef.c3 * 100000,
          coef.d)

\* C7: scenario_tool(b, delta) is the model at (b, 200000, 100000) and at
\* (b + delta, 200000, 100000); the two differ by the marketing slope times
\* delta, so a delta of 0 gives base = new and an uplift of 0.
C7_ScenarioZeroDelta ==
    call.fn = "scenario_tool" =>
        LET uplift == Sub(call.result.new, call.result.base)
        IN /\ call.result.base = LinearAt(call.a.num)
           /\ call.result.new = LinearAt(call.a.num + call.b.num)
           /\ uplift = Ratio("f64", coef.c1 * call.b.num, coef.d)
           /\ call.b.num = 0 => (call.result.base = call.result.new
                                   /\ uplift.num = 0)

\* scenario_tool was called with delta = 0 on a model whose revenue depends
\* on marketing, at a non-zero base
C7_Witness ==
    /\ call.fn = "scenario_tool"
    /\ call.b.num = 0
    /\ call.a.num # 0
    /\ coef.c1 # 0

RanThenExported == clicked = "export" /\ lastRun.ran

\* C8: when Export is pressed after Run Forecast, the export handler finds
\* revenue, profit, margin and roi defined and writes the row of the most
\* recent Run Forecast.
C8_ExportHoldsLastForecast ==
    RanThenExported =>
        /\ exc = "none"
        /\ {"revenue", "profit", "margin", "roi"} \subseteq DOMAIN ns
        /\ "download" \in DOMAIN out
        /\ out["download"].revenue = lastRun.revenue
        /\ out["download"].profit = lastRun.profit
        /\ out["download"].margin = lastRun.margin
        /\ out["download"].roi = lastRun.roi

Formatted == fmtOut # <<>>

\* the formatted text after the currency prefix
Body(s) == SubSeq(s, Len(Prefix) + 1, Len(s))

HasPrefix(s) == Len(s) >= Len(Prefix) /\ SubSeq(s, 1, Len(Prefix)) = Prefix

IsComma(c) == c = ","

NotComma(c) == c # ","

\* the groups between the commas of s, empty ones included
RECURSIVE GroupsFrom(_, _, _)
GroupsFrom(s, i, cur) ==
    IF i > Len(s) THEN <<cur>>
    ELSE IF IsComma(s[i]) THEN <<cur>> \o GroupsFrom(s, i + 1, <<>>)
    ELSE GroupsFrom(s, i + 1, Append(cur, s[i]))

Groups(s) == GroupsFrom(s, 1, <<>>)

AsciiDigits(s) == \A i \in 1..Len(s) : DigitVal(s[i]) >= 0 /\ s[i] # "AR3"

\* C5: for v >= 0, dropping the prefix and the commas of format_currency(v)
\* and reading the rest as a decimal integer gives v; format_currency(0) is
\* the ungrouped "0".
C5_RoundTrip ==
    (Formatted /\ fmtIn.num >= 0) =>
        LET digits == SelectSeq(Body(fmtOut), NotComma)
        IN /\ HasPrefix(fmtOut)
           /\ AsciiDigits(digits)
           /\ IntParse(digits) = fmtIn
           /\ Len(digits) = Len(NatStr(fmtIn.num))
           /\ fmtIn.num = 0 => fmtOut = Prefix \o <<"0">>

\* a value of seven digits or more with an inner zero has been formatted
C5_Witness ==
    /\ Formatted
    /\ fmtIn.num >= 1000000
    /\ fmtIn.num % 1000 < 10
    /\ Len(Groups(Body(fmtOut))) >= 3

\* C6: for v >= 0, at most 3 digits are left ungrouped; more are a leading
\* group of 1 or 2 digits, groups of exactly 2, and a last group of exactly
\* 3, joined by single commas.
C6_Grouping ==
    (Formatted /\ fmtIn.num >= 0) =>
        LET gs == Groups(Body(fmtOut))
            n == Len(gs)
        IN /\ HasPrefix(fmtOut)
           /\ \A i \in 1..n : gs[i] # <<>> /\ AsciiDigits(gs[i])
           /\ fmtIn.num < 1000 => n = 1
           /\ fmtIn.num >= 1000 =>
                 /\ n >= 2
                 /\ Len(gs[1]) \in {1, 2}
                 /\ \A i \in 2..(n - 1) : Len(gs[i]) = 2
                 /\ Len(gs[n]) = 3

\* a value with two-digit middle groups has been formatted
C6_Witness ==
    /\ Formatted
    /\ fmtIn.num >= 10000000
    /\ Len(Groups(Body(fmtOut))) = 4
    /\ Len(Groups(Body(fmtOut))[1]) = 1

\* C10: for v < 0, format_currency(v) is the minus sign followed by what
\* format_currency produces for |v|.
C10_NegativeSign ==
    (Formatted /\ fmtIn.num < 0) =>
        fmtOut = Prefix \o <<"-">> \o Body(format_currency(PyInt(-fmtIn.num)))

=============================================================================
